---- MODULE Spec2Model ----
(***************************************************************************)
(* Incremental update function (src/src/main.js): on every database event  *)
(* the dispatcher starts three tasks that read-modify-write three JSON     *)
(* documents of a remote store: teacher stats, links cache, uploader cache.*)
(*                                                                         *)
(* Strings are sequences of one-character strings, so that includes(),    *)
(* split(), === and the default sort() order are computed, not assumed.    *)
(***************************************************************************)
EXTENDS Integers, Sequences, FiniteSets, TLC

(***************************************************************************)
(* Bounds of the model.                                                    *)
(***************************************************************************)
\* total number of invocations of the function in one behaviour
MaxInvocations == 2
\* number of invocations in a behaviour of the one-at-a-time delivery (SerialSpec)
MaxSerial == 5

(***************************************************************************)
(* String literals of the source and of the environment.                   *)
(***************************************************************************)
sDot == "."
sDatabases == <<"d","a","t","a","b","a","s","e","s">>
sCollections == <<"c","o","l","l","e","c","t","i","o","n","s">>
sDocuments == <<"d","o","c","u","m","e","n","t","s">>
sMain == <<"m","a","i","n">>
sCreate == <<"c","r","e","a","t","e">>
sDelete == <<"d","e","l","e","t","e">>
sUpdate == <<"u","p","d","a","t","e">>
dotCreate == <<sDot>> \o sCreate
dotDelete == <<sDot>> \o sDelete
collectionsDot == sCollections \o <<sDot>>
sAll == <<"a","l","l">>
sUploaders == <<"u","p","l","o","a","d","e","r","s">>

\* process.env: the configured collection identifiers
APPWRITE_NOTE_COLLECTION_ID == <<"n","o","t","e","s">>
APPWRITE_FORM_COLLECTION_ID == <<"f","o","r","m","s">>
APPWRITE_YOUTUBE_COLLECTION_ID == <<"y","o","u","t","u","b","e">>
\* process.env: the three target documents
STATS_DOCUMENT_ID == "stats"
LINKS_UPLOADERS_CACHE_DOCUMENT_ID == "links"
UPLOADERS_CACHE_DOCUMENT_ID == "uploaders"
DocumentIds == {STATS_DOCUMENT_ID, LINKS_UPLOADERS_CACHE_DOCUMENT_ID, UPLOADERS_CACHE_DOCUMENT_ID}

\* collections of the project that are not tracked by the stats
sNotes2 == <<"n","o","t","e","s","2">>
sDeleted == <<"d","e","l","e","t","e","d">>
sCreated == <<"c","r","e","a","t","e","d">>

\* user names and subject abbreviations carried by payloads
Alice == <<"A","l","i","c","e">>
Bob == <<"B","o","b">>
PHY == <<"P","H","Y">>
\* a subject abbreviation that is also the name of a property every object inherits
sConstructor == <<"c","o","n","s","t","r","u","c","t","o","r">>

(***************************************************************************)
(* JavaScript string operations.                                           *)
(***************************************************************************)
\* UTF-16 code unit of the characters that occur in names
CodeUnit(c) ==
    CASE c = "A" -> 65 [] c = "B" -> 66 [] c = "H" -> 72 [] c = "P" -> 80
      [] c = "Y" -> 89 [] c = "a" -> 97 [] c = "b" -> 98 [] c = "c" -> 99
      [] c = "e" -> 101 [] c = "i" -> 105 [] c = "l" -> 108 [] c = "o" -> 111
      [] OTHER -> 0

\* String.prototype.includes
Includes(s, sub) ==
    \E k \in 0..(Len(s) - Len(sub)) : \A j \in 1..Len(sub) : s[k + j] = sub[j]

\* String.prototype.split with a one-character separator: the parts between
\* the separators, in order (one part more than there are separators)
Split(s, sep) ==
    LET at == {i \in 1..Len(s) : s[i] = sep}
        \* position of the j-th separator; 0 before the first, Len(s) + 1 after the last
        cut(j) == IF j = 0 THEN 0
                  ELSE IF j > Cardinality(at) THEN Len(s) + 1
                  ELSE CHOOSE i \in at : Cardinality({d \in at : d < i}) = j - 1
    IN [j \in 1..(Cardinality(at) + 1) |-> SubSeq(s, cut(j - 1) + 1, cut(j) - 1)]

\* a[i] of a JavaScript array, 0-based: undefined (here the empty string) past the end
At(a, i) == IF i + 1 \in DOMAIN a THEN a[i + 1] ELSE << >>

\* a < b for strings: lexicographic on code units
RECURSIVE StrLess(_, _)
StrLess(a, b) ==
    IF b = << >> THEN FALSE
    ELSE IF a = << >> THEN TRUE
    ELSE IF CodeUnit(Head(a)) # CodeUnit(Head(b)) THEN CodeUnit(Head(a)) < CodeUnit(Head(b))
    ELSE StrLess(Tail(a), Tail(b))

\* truthiness of a string-or-undefined value (undefined is modelled as the empty string)
Undefined == << >>
Truthy(v) == v # << >>

(***************************************************************************)
(* Array.prototype.sort: stable (ES2019; the README's runtime is Node 18+). *)
(***************************************************************************)
\* (a variant of InsertByTotal in which x also goes before an entry it ties with)
RECURSIVE InsertBeforeTies(_, _)
InsertBeforeTies(sorted, x) ==
    IF sorted = << >> THEN <<x>>
    ELSE IF Head(sorted).total - x.total <= 0 THEN <<x>> \o sorted
    ELSE <<Head(sorted)>> \o InsertBeforeTies(Tail(sorted), x)

\* statsData.sort((a, b) => b.total - a.total): x goes before the first entry it beats
RECURSIVE InsertByTotal(_, _)
InsertByTotal(sorted, x) ==
    IF sorted = << >> THEN <<x>>
    ELSE IF Head(sorted).total - x.total < 0 THEN <<x>> \o sorted
    ELSE <<Head(sorted)>> \o InsertByTotal(Tail(sorted), x)

RECURSIVE SortByTotalFrom(_, _)
SortByTotalFrom(sorted, rest) ==
    IF rest = << >> THEN sorted
    ELSE SortByTotalFrom(InsertByTotal(sorted, Head(rest)), Tail(rest))

\* (a variant of SortByTotal that leaves the array in the order it has)
SortByTotalNot(statsData) == statsData

SortByTotal(statsData) == SortByTotalFrom(<< >>, statsData)

\* names.sort(): x goes before the first name that is greater in code-unit order
RECURSIVE InsertName(_, _)
InsertName(sorted, x) ==
    IF sorted = << >> THEN <<x>>
    ELSE IF StrLess(x, Head(sorted)) THEN <<x>> \o sorted
    ELSE <<Head(sorted)>> \o InsertName(Tail(sorted), x)

RECURSIVE SortNamesFrom(_, _)
SortNamesFrom(sorted, rest) ==
    IF rest = << >> THEN sorted
    ELSE SortNamesFrom(InsertName(sorted, Head(rest)), Tail(rest))

\* (a variant of SortNames that leaves the array in the order it has)
SortNamesNot(names) == names

\* (a variant of SortNames that keeps the pushed name only)
SortNamesLast(names) == <<names[Len(names)]>>

SortNames(names) == SortNamesFrom(<< >>, names)

\* (a variant of ArrayIncludes that finds nothing)
ArrayIncludesNever(a, x) == FALSE

\* Array.prototype.includes
ArrayIncludes(a, x) == \E k \in DOMAIN a : a[k] = x

(***************************************************************************)
(* JSON values and texts.  A value is an array or an object; the text of a *)
(* value is what JSON.stringify writes and JSON.parse reads back.  The     *)
(* field `data` of a stored document is a text, or empty (null, absent or  *)
(* the empty string: all are falsy for `document.data || '{}'`).           *)
(***************************************************************************)
JArray(items) == [kind |-> "array", items |-> items]
JObject(fields) == [kind |-> "object", fields |-> fields]
EmptyFields == [k \in {} |-> << >>]
JSONstringify(value) == <<value>>
JSONparse(text) == text[1]
NoData == << >>

\* obj[key], undefined (here the empty array, equally falsy under ||) when absent
Prop(fields, key) == IF key \in DOMAIN fields THEN fields[key] ELSE << >>
\* obj[key] = value
SetProp(fields, key, value) ==
    [k \in (DOMAIN fields) \cup {key} |-> IF k = key THEN value ELSE fields[k]]

\* getAndParseJSON: JSON.parse(document.data || '{}')
getAndParseJSON(document) ==
    IF document.data = NoData THEN JObject(EmptyFields) ELSE JSONparse(document.data)

(***************************************************************************)
(* The three tasks.  Each is an async function: the part before the first  *)
(* await runs when the dispatcher calls it, the part after getDocument     *)
(* resolves runs when the store answers the read, and the task settles     *)
(* when the store answers the write.  A task is a record                   *)
(*   status  : "getDocument" | "updateDocument" (awaiting that call),      *)
(*             "fulfilled" | "rejected" (settled)                          *)
(*   pending : the `data` text of the updateDocument call in flight        *)
(*   gets, updates : number of getDocument / updateDocument calls issued   *)
(*   written : the `data` text the store accepted from this task           *)
(*   reason  : why it rejected: "StoreError" (a store call failed) or      *)
(*             "TypeError" (its own code threw)                            *)
(*   empty   : the document its getDocument returned had no `data`         *)
(*   read    : the `data` text its getDocument returned                    *)
(***************************************************************************)
TaskIds == {1, 2, 3}
\* (a variant of DocumentOf in which the two cache tasks share one document)
DocumentOfShared(t) ==
    IF t = 1 THEN STATS_DOCUMENT_ID ELSE LINKS_UPLOADERS_CACHE_DOCUMENT_ID

\* the document each task reads and writes
DocumentOf(t) ==
    CASE t = 1 -> STATS_DOCUMENT_ID
      [] t = 2 -> LINKS_UPLOADERS_CACHE_DOCUMENT_ID
      [] t = 3 -> UPLOADERS_CACHE_DOCUMENT_ID

\* return before any store call
Returned ==
    [status |-> "fulfilled", pending |-> NoData, gets |-> 0, updates |-> 0, written |-> NoData,
     reason |-> "none", empty |-> FALSE, read |-> NoData]
\* suspended at await getAndParseJSON(...)
AwaitGet == [Returned EXCEPT !.status = "getDocument", !.gets = 1]
\* suspended at await db.updateDocument(..., { data })
AwaitUpdate(data) ==
    [Returned EXCEPT !.status = "updateDocument", !.pending = data, !.gets = 1, !.updates = 1]
\* returned after the read, without a write
ReturnedAfterGet == [Returned EXCEPT !.gets = 1]
\* an exception thrown after the read (a TypeError of the continuation)
ThrownAfterGet == [Returned EXCEPT !.status = "rejected", !.gets = 1, !.reason = "TypeError"]

\* a || b
Or(a, b) == IF Truthy(a) THEN a ELSE b
\* Math.max(0, x)
Max0(x) == IF x < 0 THEN 0 ELSE x

\* event.split('.')[3]
CollectionId(event) == At(Split(event, sDot), 3)
\* (a variant of Increment that counts every event as a create)
IncrementAlways(event) == 1

\* event.includes('.create') ? 1 : -1
Increment(event) == IF Includes(event, dotCreate) THEN 1 ELSE -1

\* eventData.userName || eventData.createdBy
Attribution(eventData) == Or(Prop(eventData, "userName"), Prop(eventData, "createdBy"))

\* updateTeacherStats up to its first await
StartTeacherStats(event, eventData) ==
    IF ~Includes(event, dotCreate) /\ ~Includes(event, dotDelete) THEN Returned
    ELSE IF ~Truthy(Attribution(eventData)) THEN Returned
    ELSE AwaitGet

\* { name: userName, notes: 0, forms: 0, youtube: 0, total: 0 }
FreshStats(userName) == [name |-> userName, notes |-> 0, forms |-> 0, youtube |-> 0, total |-> 0]

\* (a variant of FindIndex that finds no entry)
FindIndexNone(items, userName) == 0

\* index of the entry statsData.find(u => u.name === userName) returns, 0 when none
FindIndex(items, userName) ==
    IF \E k \in DOMAIN items : items[k].name = userName
    THEN CHOOSE k \in DOMAIN items :
            /\ items[k].name = userName
            /\ \A j \in DOMAIN items : items[j].name = userName => k <= j
    ELSE 0

\* (a variant of AddIncrement that leaves total out)
AddIncrementNoTotal(userStats, collectionId, increment) ==
    [userStats EXCEPT
        !.notes = IF collectionId = APPWRITE_NOTE_COLLECTION_ID THEN @ + increment ELSE @,
        !.forms = IF collectionId = APPWRITE_FORM_COLLECTION_ID THEN @ + increment ELSE @,
        !.youtube = IF collectionId = APPWRITE_YOUTUBE_COLLECTION_ID THEN @ + increment ELSE @]

\* the += increment lines
AddIncrement(userStats, collectionId, increment) ==
    [userStats EXCEPT
        !.notes = IF collectionId = APPWRITE_NOTE_COLLECTION_ID THEN @ + increment ELSE @,
        !.forms = IF collectionId = APPWRITE_FORM_COLLECTION_ID THEN @ + increment ELSE @,
        !.youtube = IF collectionId = APPWRITE_YOUTUBE_COLLECTION_ID THEN @ + increment ELSE @,
        !.total = @ + increment]

\* (a variant of Clamp that leaves the counters as they are)
ClampNothing(userStats) == userStats

\* "Ensure counts don't go below zero"
Clamp(userStats) ==
    [userStats EXCEPT !.notes = Max0(@), !.forms = Max0(@), !.youtube = Max0(@), !.total = Max0(@)]

\* the array after find/push, the increments, the clamp and the sort
UpdatedStats(items, event, eventData) ==
    LET userName == Attribution(eventData)
        found == FindIndex(items, userName)
        pushed == IF found = 0 THEN Append(items, FreshStats(userName)) ELSE items
        at == IF found = 0 THEN Len(pushed) ELSE found
        userStats == Clamp(AddIncrement(pushed[at], CollectionId(event), Increment(event)))
    IN SortByTotal([pushed EXCEPT ![at] = userStats])

\* updateTeacherStats after getDocument resolved with `document`
ContinueTeacherStats(event, eventData, document) ==
    LET statsData == getAndParseJSON(document)
    IN IF statsData.kind # "array"
       THEN ThrownAfterGet   \* statsData.find is not a function
       ELSE AwaitUpdate(JSONstringify(JArray(UpdatedStats(statsData.items, event, eventData))))

\* updateLinksCache up to its first await
StartLinksCache(event, eventData) ==
    IF ~Includes(event, dotCreate) THEN Returned
    ELSE IF ~Truthy(Prop(eventData, "createdBy")) THEN Returned
    ELSE AwaitGet

\* updateLinksCache after getDocument resolved with `document`
ContinueLinksCache(event, eventData, document) ==
    LET uploaderName == Prop(eventData, "createdBy")
        cacheData == getAndParseJSON(document)
        uploaders == Prop(cacheData.fields, sUploaders)
    IN IF ~ArrayIncludes(uploaders, uploaderName)
       THEN AwaitUpdate(JSONstringify(JObject(
                SetProp(EmptyFields, sUploaders, SortNames(Append(uploaders, uploaderName))))))
       ELSE ReturnedAfterGet

\* updateUploaderCache up to its first await
StartUploaderCache(event, eventData) ==
    IF ~Includes(event, collectionsDot \o APPWRITE_NOTE_COLLECTION_ID) THEN Returned
    ELSE IF ~Includes(event, dotCreate) THEN Returned
    ELSE IF ~Truthy(Prop(eventData, "userName")) \/ ~Truthy(Prop(eventData, "abbreviation"))
    THEN Returned
    ELSE AwaitGet

\* if (!list.includes(userName)) { list.push(userName); list.sort(); }
AddName(fields, key, userName) ==
    IF ~ArrayIncludes(fields[key], userName)
    THEN SetProp(fields, key, SortNames(Append(fields[key], userName)))
    ELSE fields

\* Property names an object parsed from JSON inherits from Object.prototype:
\* obj[key] is then a function, which is truthy and has no includes method.
ObjectPrototypeKeys == {sConstructor}
\* cacheData[key] is something else than an array or undefined
Inherited(fields, key) == key \in ObjectPrototypeKeys /\ key \notin DOMAIN fields

\* updateUploaderCache after getDocument resolved with `document`
ContinueUploaderCache(event, eventData, document) ==
    LET userName == Prop(eventData, "userName")
        abbreviation == Prop(eventData, "abbreviation")
        cacheData == getAndParseJSON(document)
        withAll == SetProp(cacheData.fields, sAll, Prop(cacheData.fields, sAll))
        ensured == SetProp(withAll, abbreviation, Prop(withAll, abbreviation))
        inAll == AddName(ensured, sAll, userName)
        inBoth == AddName(inAll, abbreviation, userName)
        hasChanged == ~ArrayIncludes(ensured[sAll], userName)
                        \/ ~ArrayIncludes(inAll[abbreviation], userName)
    IN IF Inherited(cacheData.fields, abbreviation)
       THEN ThrownAfterGet   \* cacheData[abbreviation].includes is not a function
       ELSE IF hasChanged
       THEN AwaitUpdate(JSONstringify(JObject(inBoth)))
       ELSE ReturnedAfterGet

(***************************************************************************)
(* Inputs: the event name of the x-appwrite-event header and the payload.  *)
(***************************************************************************)
\* databases.<db>.collections.<collectionId>.documents.<operation>
EventName(collectionId, operation) ==
    sDatabases \o <<sDot>> \o sMain \o <<sDot>> \o sCollections \o <<sDot>> \o collectionId
        \o <<sDot>> \o sDocuments \o <<sDot>> \o operation

Operations == {sCreate, sDelete, sUpdate}
TrackedCollections ==
    {APPWRITE_NOTE_COLLECTION_ID, APPWRITE_FORM_COLLECTION_ID, APPWRITE_YOUTUBE_COLLECTION_ID}
Collections == TrackedCollections \cup {sNotes2, sDeleted, sCreated}
Events == {EventName(c, op) : c \in Collections, op \in Operations}

\* the parts of an event name
Segments(event) == Split(event, sDot)
\* the operation of an event name: its last segment
Operation(event) == Segments(event)[Len(Segments(event))]

\* req.body with the fields that are present
Body(userName, createdBy, abbreviation) ==
    LET all == [userName |-> userName, createdBy |-> createdBy, abbreviation |-> abbreviation]
    IN [k \in {f \in DOMAIN all : all[f] # Undefined} |-> all[k]]

Bodies ==
    {Body(u, c, a) : u \in {Undefined, Alice, Bob}, c \in {Undefined, Alice, Bob},
                     a \in {Undefined, PHY, sConstructor}}

Request(event, eventData) == [event |-> event, eventData |-> eventData]

\* every event with every payload
AllRequests == {Request(ev, b) : ev \in Events, b \in Bodies}

\* the documents of the application: a note carries userName and abbreviation,
\* a form or a video carries createdBy; notes2 is a collection the stats do not track
Requests ==
    {Request(EventName(APPWRITE_NOTE_COLLECTION_ID, op), Body(Alice, Undefined, PHY)) :
        op \in Operations}
    \cup {Request(EventName(APPWRITE_FORM_COLLECTION_ID, op), Body(Undefined, Alice, Undefined)) :
        op \in {sCreate, sDelete}}
    \cup {Request(EventName(APPWRITE_YOUTUBE_COLLECTION_ID, sCreate), Body(Undefined, Bob, Undefined)),
          Request(EventName(sNotes2, sCreate), Body(Bob, Undefined, PHY))}

\* creates and deletes of one user's documents in the three tracked collections
SerialRequests ==
    {Request(EventName(c, op), Body(Alice, Undefined, Undefined)) :
        c \in TrackedCollections, op \in {sCreate, sDelete}}

(***************************************************************************)
(* State.                                                                  *)
(***************************************************************************)
VARIABLES
    store,   \* the three documents of the remote store: document id -> [data]
    inv,     \* the running or finished invocation of each executor
    seen     \* what the deliveries so far amount to (history, read by the properties only)

vars == <<store, inv, seen>>

\* instances of the function that can run at the same time
Executors == {1, 2}

\* inv[e].solo : no other invocation has run since this one was dispatched
\* inv[e].again[t] : this request is the previous one delivered again, after task t
\*                   of that one had its write accepted, with nothing in between
\* inv[e].caught : the catch block of the handler has run
Idle ==
    [phase |-> "idle", event |-> << >>, eventData |-> EmptyFields,
     task |-> [t \in TaskIds |-> Returned], response |-> "none", caught |-> FALSE,
     solo |-> FALSE, again |-> [t \in TaskIds |-> FALSE]]

StatsEntry(name, notes, forms, youtube, total) ==
    [name |-> name, notes |-> notes, forms |-> forms, youtube |-> youtube, total |-> total]

Document(value) == [data |-> JSONstringify(value)]
Unset == [data |-> NoData]

\* documents as provisioned before the first invocation
InitialStores ==
    { \* provisioned with no payload
      [d \in DocumentIds |-> Unset],
      \* provisioned empty
      (STATS_DOCUMENT_ID :> Document(JArray(<< >>)))
        @@ (LINKS_UPLOADERS_CACHE_DOCUMENT_ID :> Document(JObject(EmptyFields)))
        @@ (UPLOADERS_CACHE_DOCUMENT_ID :> Document(JObject(EmptyFields))),
      \* populated; the stats were written by hand, in no order
      (STATS_DOCUMENT_ID :> Document(JArray(<<StatsEntry(Alice, 0, 0, 0, 0), StatsEntry(Bob, 0, 1, 0, 1)>>)))
        @@ (LINKS_UPLOADERS_CACHE_DOCUMENT_ID :> Document(JObject(SetProp(EmptyFields, sUploaders, <<Bob>>))))
        @@ (UPLOADERS_CACHE_DOCUMENT_ID :> Document(JObject(
                SetProp(SetProp(EmptyFields, sAll, <<Bob>>), PHY, <<Bob>>)))) }

\* the stats entries of a stored document, << >> when it holds no array
StatsItems(document) ==
    LET value == getAndParseJSON(document)
    IN IF value.kind = "array" THEN value.items ELSE << >>

\* the first entry of `name` in a stored stats document, a fresh one when it has none
EntryOf(document, name) ==
    LET items == StatsItems(document)
    IN IF FindIndex(items, name) = 0 THEN FreshStats(name) ELSE items[FindIndex(items, name)]

(***************************************************************************)
(* The history variable `seen`.  The user whose deliveries it accounts for *)
(* is TheUser.  A delivery is regular while the stats started as the empty *)
(* list and every request so far was a create or a delete of TheUser on a  *)
(* tracked collection, handed over while no other invocation was running.  *)
(***************************************************************************)
TheUser == Alice

NoRequest == Request(<< >>, EmptyFields)
NoLast == [request |-> NoRequest, wrote |-> [t \in TaskIds |-> FALSE]]

\* seen.dispatched : number of invocations so far
\* seen.regular    : the delivery is regular (see above)
\* seen.failed     : regular, and a store call has failed
\* seen.net        : regular: #creates - #deletes
\* seen.running    : regular: 0, then +1 per create and -1 per delete, never below 0
\* seen.underflow  : regular, and a delete came for a category whose counter was 0
\* seen.last       : the last invocation that ended with no other one running
Irregular(n) ==
    [dispatched |-> n, regular |-> FALSE, failed |-> FALSE, net |-> 0, running |-> 0,
     underflow |-> FALSE, last |-> NoLast]

\* the collection an event name is about: its fourth part
CollectionOf(event) == Segments(event)[4]

\* +1 for a create, -1 for a delete, by the operation the event name ends with
Delta(event) ==
    IF Operation(event) = sCreate THEN 1 ELSE IF Operation(event) = sDelete THEN -1 ELSE 0

IsRegular(event, eventData) ==
    /\ Operation(event) \in {sCreate, sDelete}
    /\ CollectionOf(event) \in TrackedCollections
    /\ Attribution(eventData) = TheUser

\* the counter of an entry that counts the documents of a tracked collection
CategoryCount(entry, collectionId) ==
    CASE collectionId = APPWRITE_NOTE_COLLECTION_ID -> entry.notes
      [] collectionId = APPWRITE_FORM_COLLECTION_ID -> entry.forms
      [] collectionId = APPWRITE_YOUTUBE_COLLECTION_ID -> entry.youtube

NoneRunning == \A x \in Executors : inv[x].phase # "running"

SeenAfter(event, eventData) ==
    IF seen.regular /\ NoneRunning /\ IsRegular(event, eventData)
    THEN [seen EXCEPT
            !.dispatched = @ + 1,
            !.net = @ + Delta(event),
            !.running = IF @ + Delta(event) < 0 THEN 0 ELSE @ + Delta(event),
            !.underflow = @ \/ ( /\ Delta(event) = -1
                                 /\ CategoryCount(EntryOf(store[STATS_DOCUMENT_ID], TheUser),
                                                  CollectionOf(event)) = 0 ),
            !.last = NoLast]
    ELSE Irregular(seen.dispatched + 1)

Init ==
    /\ store \in InitialStores
    /\ inv = [e \in Executors |-> Idle]
    /\ seen = [Irregular(0) EXCEPT
                !.regular = (store[STATS_DOCUMENT_ID] = Document(JArray(<< >>)))]

(***************************************************************************)
(* The dispatcher (the default export) and the store's answers.            *)
(***************************************************************************)
Running(e) == inv[e].phase = "running"
\* the platform hands a request to the first executor that is not running
Free(e) == ~Running(e) /\ \A x \in Executors : x < e => Running(x)
Settled(task) == task.status \in {"fulfilled", "rejected"}

\* The handler up to `await Promise.allSettled([...])`: the three tasks are called
\* in turn and each runs to its first await.
Dispatch(e, event, eventData) ==
    /\ Free(e)
    /\ inv' = [x \in Executors |->
            IF x = e
            THEN [phase |-> "running", event |-> event, eventData |-> eventData,
                  task |-> (1 :> StartTeacherStats(event, eventData))
                        @@ (2 :> StartLinksCache(event, eventData))
                        @@ (3 :> StartUploaderCache(event, eventData)),
                  response |-> "none", caught |-> FALSE,
                  solo |-> NoneRunning,
                  again |-> [t \in TaskIds |->
                                /\ NoneRunning
                                /\ seen.last.request = Request(event, eventData)
                                /\ seen.last.wrote[t]]]
            ELSE [inv[x] EXCEPT !.solo = FALSE, !.again = [t \in TaskIds |-> FALSE]]]
    /\ seen' = SeenAfter(event, eventData)
    /\ UNCHANGED store

\* The handler throws while it builds the client, before its try block: the
\* exception leaves the handler and no response is sent.
Throw(e) ==
    /\ Free(e)
    /\ inv' = [x \in Executors |->
            IF x = e THEN [Idle EXCEPT !.phase = "thrown"]
            ELSE [inv[x] EXCEPT !.solo = FALSE, !.again = [t \in TaskIds |-> FALSE]]]
    /\ seen' = Irregular(seen.dispatched + 1)
    /\ UNCHANGED store

\* the continuation of task t after its getDocument resolved
Continue(t, event, eventData, document) ==
    CASE t = 1 -> ContinueTeacherStats(event, eventData, document)
      [] t = 2 -> ContinueLinksCache(event, eventData, document)
      [] t = 3 -> ContinueUploaderCache(event, eventData, document)

SeenFailure(ok) == IF ok \/ ~seen.regular THEN seen ELSE [seen EXCEPT !.failed = TRUE]

\* The store answers the getDocument of task t: with the document, and the task
\* runs to its next await or to its end; or with an error, and the task rejects.
GetDocument(e, t, ok) ==
    /\ Running(e)
    /\ inv[e].task[t].status = "getDocument"
    /\ inv' = [inv EXCEPT ![e].task[t] =
            IF ok
            THEN [Continue(t, inv[e].event, inv[e].eventData, store[DocumentOf(t)])
                    EXCEPT !.empty = (store[DocumentOf(t)].data = NoData),
                           !.read = store[DocumentOf(t)].data]
            ELSE [@ EXCEPT !.status = "rejected", !.reason = "StoreError"]]
    /\ seen' = SeenFailure(ok)
    /\ UNCHANGED store

\* (a variant of updateDocument that leaves the document as it is)
updateDocumentNot(document, data) == document

\* db.updateDocument(..., { data }): the field `data` of the document is replaced,
\* whatever it holds
updateDocument(document, data) == [document EXCEPT !.data = data]

\* The store answers the updateDocument of task t: it overwrites `data` and the
\* task ends; or it fails, the document keeps its state and the task rejects.
UpdateDocument(e, t, ok) ==
    /\ Running(e)
    /\ inv[e].task[t].status = "updateDocument"
    /\ inv' = [inv EXCEPT ![e].task[t] =
            [@ EXCEPT !.status = IF ok THEN "fulfilled" ELSE "rejected",
                      !.reason = IF ok THEN "none" ELSE "StoreError",
                      !.pending = NoData,
                      !.written = IF ok THEN inv[e].task[t].pending ELSE NoData]]
    /\ store' = IF ok THEN [store EXCEPT ![DocumentOf(t)] =
                                updateDocument(@, inv[e].task[t].pending)]
                ELSE store
    /\ seen' = SeenFailure(ok)

\* (a variant of Response that reports a rejected task as a failure)
ResponseByOutcome(results) ==
    IF \E t \in TaskIds : results[t].status = "rejected" THEN "failure" ELSE "success"

\* results.forEach(...) only logs the rejections; the handler then returns
\* res.json({ success: true, ... }) whatever the results are
Response(results) == "success"

\* what the handler keeps of an invocation once it has answered
Answered(e, response) ==
    [Idle EXCEPT !.phase = "responded", !.response = response,
                 !.task = [t \in TaskIds |-> [Returned EXCEPT !.status = inv[e].task[t].status]]]

\* the last invocation, as far as a redelivery is concerned
LastAfter(e) ==
    IF inv[e].solo
    THEN [request |-> Request(inv[e].event, inv[e].eventData),
          wrote |-> [t \in TaskIds |-> inv[e].task[t].written # NoData]]
    ELSE NoLast

\* Promise.allSettled resolved: the rejections are logged and res.json answers.
\* What the handler held is dropped; the outcome of each task is kept.
Respond(e) ==
    /\ Running(e)
    /\ \A t \in TaskIds : Settled(inv[e].task[t])
    /\ inv' = [inv EXCEPT ![e] = Answered(e, Response(inv[e].task))]
    /\ seen' = [seen EXCEPT !.last = LastAfter(e)]
    /\ UNCHANGED store

\* Promise.allSettled resolved and a call of the try block that follows it
\* (error(...) of the logging, res.json(...)) throws: the catch block answers
\* res.json({ success: false, error }, 500).
Catch(e) ==
    /\ Running(e)
    /\ \A t \in TaskIds : Settled(inv[e].task[t])
    /\ inv' = [inv EXCEPT ![e] = [Answered(e, "failure") EXCEPT !.caught = TRUE]]
    /\ seen' = [seen EXCEPT !.last = LastAfter(e)]
    /\ UNCHANGED store

\* what the store does with the calls in flight
StoreAnswers ==
    \/ \E e \in Executors, t \in TaskIds, ok \in BOOLEAN : GetDocument(e, t, ok)
    \/ \E e \in Executors, t \in TaskIds, ok \in BOOLEAN : UpdateDocument(e, t, ok)

\* Any interleaving of up to MaxInvocations invocations on two executors.
Next ==
    \/ \E e \in Executors, r \in Requests :
            seen.dispatched < MaxInvocations /\ Dispatch(e, r.event, r.eventData)
    \/ \E e \in Executors : seen.dispatched < MaxInvocations /\ Throw(e)
    \/ StoreAnswers
    \/ \E e \in Executors : Respond(e)
    \/ \E e \in Executors : Catch(e)

Spec == Init /\ [][Next]_vars

\* One invocation at a time, up to MaxSerial of them.
NextSerial ==
    \/ \E e \in Executors, r \in SerialRequests :
            seen.dispatched < MaxSerial /\ NoneRunning /\ Dispatch(e, r.event, r.eventData)
    \/ \E e \in Executors : seen.dispatched < MaxSerial /\ NoneRunning /\ Throw(e)
    \/ StoreAnswers
    \/ \E e \in Executors : Respond(e)

\* ... starting from the stats provisioned as the empty list
InitSerial == Init /\ seen.regular

SerialSpec == InitSerial /\ [][NextSerial]_vars

\* A single invocation, with every event and every payload.
NextOne ==
    \/ \E e \in Executors, r \in AllRequests :
            seen.dispatched = 0 /\ Dispatch(e, r.event, r.eventData)
    \/ \E e \in Executors : seen.dispatched = 0 /\ Throw(e)
    \/ StoreAnswers
    \/ \E e \in Executors : Respond(e)
    \/ \E e \in Executors : Catch(e)

OneSpec == Init /\ [][NextOne]_vars

\* ... in which the store answers every call (with a result or an error) and a
\* handler whose Promise.allSettled has resolved runs on to its return.
FairOneSpec ==
    /\ Init /\ [][NextOne]_vars
    /\ WF_vars(StoreAnswers)
    /\ WF_vars(\E e \in Executors : Respond(e) \/ Catch(e))

\* A single invocation with any event and payload, then the same request once more.
NextAgain ==
    \/ \E e \in Executors, r \in AllRequests :
            seen.dispatched = 0 /\ Dispatch(e, r.event, r.eventData)
    \/ \E e \in Executors :
            /\ seen.dispatched = 1
            /\ NoneRunning
            /\ seen.last.request \in AllRequests
            /\ Dispatch(e, seen.last.request.event, seen.last.request.eventData)
    \/ StoreAnswers
    \/ \E e \in Executors : Respond(e)

AgainSpec == Init /\ [][NextAgain]_vars

(***************************************************************************)
(* Properties.                                                             *)
(***************************************************************************)
NonNegative(entry) ==
    entry.notes >= 0 /\ entry.forms >= 0 /\ entry.youtube >= 0 /\ entry.total >= 0

AllNonNegative(items) == \A k \in DOMAIN items : NonNegative(items[k])

\* the stats array of a `data` text
ItemsOf(data) == StatsItems([data |-> data])

\* C1: every entry of every stats document the Teacher Stats Task hands to the
\* store, and so every entry of the stored document, has notes, forms, youtube and
\* total >= 0, whatever the order of the creates, deletes and updates.
CountersNeverNegative ==
    /\ AllNonNegative(StatsItems(store[STATS_DOCUMENT_ID]))
    /\ \A e \in Executors :
          /\ AllNonNegative(ItemsOf(inv[e].task[1].pending))
          /\ AllNonNegative(ItemsOf(inv[e].task[1].written))

\* C1 witness: a delete is the first event for the user (from the empty list) and
\* its write was accepted: the entry was created and clamped at 0.
DeleteBeforeCreateWritten ==
    /\ seen.regular /\ seen.dispatched = 1 /\ seen.net = -1
    /\ \E e \in Executors : inv[e].task[1].written # NoData
    /\ EntryOf(store[STATS_DOCUMENT_ID], TheUser).total = 0
    /\ FindIndex(StatsItems(store[STATS_DOCUMENT_ID]), TheUser) # 0

\* the invocations so far have all ended, none failed, and they were regular
RegularAndDone == seen.regular /\ ~seen.failed /\ seen.dispatched >= 1 /\ NoneRunning

TotalOfTheUser == EntryOf(store[STATS_DOCUMENT_ID], TheUser).total
SumOfTheUser ==
    LET entry == EntryOf(store[STATS_DOCUMENT_ID], TheUser)
    IN entry.notes + entry.forms + entry.youtube

TotalIsSumOfCategories == seen.regular => TotalOfTheUser = SumOfTheUser

\* C3 amended: in a regular delivery, after every write total <= notes + forms +
\* youtube, and they are equal as long as no delete came for a category whose
\* counter was 0.
TotalAtMostSumOfCategories ==
    seen.regular =>
        /\ TotalOfTheUser <= SumOfTheUser
        /\ ~seen.underflow => TotalOfTheUser = SumOfTheUser

\* C3 witness: a delete of a category at 0 took 1 off the total that another
\* category had put there.
TotalBelowSum ==
    /\ seen.regular /\ seen.underflow /\ NoneRunning
    /\ TotalOfTheUser < SumOfTheUser

SortedByTotal(items) ==
    \A k \in 1..(Len(items) - 1) : items[k].total >= items[k + 1].total

\* C4: each time the store accepts a write of the Teacher Stats Task, the stats
\* document it then holds is in non-increasing order of total.
StatsSortedAfterWrite ==
    [][\A e \in Executors :
          (inv[e].task[1].status = "updateDocument" /\ inv'[e].task[1].status = "fulfilled")
              => SortedByTotal(StatsItems(store'[STATS_DOCUMENT_ID]))]_vars

\* C4 witness: a write was accepted that put the user's entry before another one
\* with a smaller total (the documents provisioned with both have Bob ahead or tied).
StatsReordered ==
    \E e \in Executors :
        LET items == ItemsOf(inv[e].task[1].written)
        IN /\ Len(items) = 2
           /\ items[1].name = Alice /\ items[2].name = Bob
           /\ items[1].total > items[2].total

StrictlyAscending(names) ==
    \A k \in 1..(Len(names) - 1) : StrLess(names[k], names[k + 1])

\* the name lists of a stored cache document
CacheFields(document) == getAndParseJSON(document).fields

\* C5: the uploaders list of the links cache, and the list all and every category
\* list of the uploader cache, never hold a name twice and are in ascending order.
CachesSortedWithoutDuplicates ==
    \A d \in {LINKS_UPLOADERS_CACHE_DOCUMENT_ID, UPLOADERS_CACHE_DOCUMENT_ID} :
        \A key \in DOMAIN CacheFields(store[d]) : StrictlyAscending(CacheFields(store[d])[key])

\* C5 witness: both cache tasks have inserted a name in front of one that was there.
NamesInsertedInFront ==
    /\ Prop(CacheFields(store[LINKS_UPLOADERS_CACHE_DOCUMENT_ID]), sUploaders) = <<Alice, Bob>>
    /\ Prop(CacheFields(store[UPLOADERS_CACHE_DOCUMENT_ID]), sAll) = <<Alice, Bob>>
    /\ Prop(CacheFields(store[UPLOADERS_CACHE_DOCUMENT_ID]), PHY) = <<Alice, Bob>>

\* C6: when a request is delivered again right after an invocation in which the
\* Links Cache Task (resp. the Uploader Cache Task) had its write accepted, that
\* task issues no updateDocument in the second invocation and no step of the
\* second invocation changes the task's document.
RedeliveryWritesNothing ==
    [][\A e \in Executors : \A t \in {2, 3} :
          (Running(e) /\ inv[e].again[t])
              => /\ inv'[e].task[t].updates = 0
                 /\ store'[DocumentOf(t)] = store[DocumentOf(t)]]_vars

\* C6 witness: the second delivery of a create that made both cache tasks write
\* has ended: both tasks read their document and returned.
RedeliveredAndSettled ==
    \E e \in Executors :
        /\ Running(e) /\ inv[e].again[2] /\ inv[e].again[3]
        /\ \A t \in {2, 3} : inv[e].task[t].status = "fulfilled" /\ inv[e].task[t].gets = 1

\* C7 as stated: for an event whose operation is update, whatever its collection
\* and payload, the Teacher Stats Task issues no updateDocument and the store
\* accepts no stats document from it.
UpdateEventsLeaveStatsAlone ==
    \A e \in Executors :
        (Running(e) /\ Operation(inv[e].event) = sUpdate)
            => inv[e].task[1].updates = 0 /\ inv[e].task[1].written = NoData

\* C8 as stated: for a create event on a collection other than the configured
\* notes collection, the Uploader Cache Task issues no getDocument and no
\* updateDocument.
NonNotesCreatesIgnored ==
    \A e \in Executors :
        ( /\ Running(e)
          /\ Operation(inv[e].event) = sCreate
          /\ CollectionOf(inv[e].event) # APPWRITE_NOTE_COLLECTION_ID )
            => inv[e].task[3].gets = 0 /\ inv[e].task[3].updates = 0

\* the `data` text task t of executor e has handed to the store, NoData when none
Handed(e, t) ==
    IF inv[e].task[t].pending # NoData THEN inv[e].task[t].pending ELSE inv[e].task[t].written

\* C9 as stated: a task whose getDocument returned a document without `data` does
\* not throw; the Teacher Stats Task then hands over, for a create event of user X,
\* a document with exactly one entry, for X.
EmptyDataReadAsEmptyValue ==
    \A e \in Executors : \A t \in TaskIds :
        (Running(e) /\ inv[e].task[t].empty)
            => /\ inv[e].task[t].reason # "TypeError"
               /\ (t = 1 /\ Operation(inv[e].event) = sCreate /\ Handed(e, 1) # NoData)
                    => /\ Len(ItemsOf(Handed(e, 1))) = 1
                       /\ ItemsOf(Handed(e, 1))[1].name = Attribution(inv[e].eventData)

\* C10 as stated: when the three tasks of an invocation have settled, every task
\* none of whose store calls failed has run to its end, and the write it made is
\* what its document holds.
FailuresStayInTheirTask ==
    \A e \in Executors :
        (Running(e) /\ \A t \in TaskIds : Settled(inv[e].task[t]))
            => \A t \in TaskIds :
                  inv[e].task[t].reason # "StoreError"
                      => /\ inv[e].task[t].status = "fulfilled"
                         /\ inv[e].task[t].updates = 1
                                => store[DocumentOf(t)].data = inv[e].task[t].written

\* C11: an invocation that started its three tasks and collected their results
\* has answered success, whichever of the tasks were rejected; it has answered
\* failure only when the catch block ran, that is when the handler itself threw
\* after the tasks had settled.
SuccessWhateverTheTasksDid ==
    \A e \in Executors :
        inv[e].phase = "responded"
            => inv[e].response = (IF inv[e].caught THEN "failure" ELSE "success")

\* C11 witness: the three tasks were rejected and the answer is success.
AllRejectedAnsweredSuccess ==
    \E e \in Executors :
        /\ inv[e].phase = "responded" /\ inv[e].response = "success"
        /\ \A t \in TaskIds : inv[e].task[t].status = "rejected"

\* C12 as stated: an invocation whose setup threw before any task started has
\* answered with the failure response.
SetupThrowAnswered ==
    \A e \in Executors : inv[e].phase = "thrown" => inv[e].response = "failure"

\* the store accepts the write of task t of executor e in this step
Accepts(e, t) ==
    /\ Running(e)
    /\ inv[e].task[t].status = "updateDocument"
    /\ inv'[e].task[t].status = "fulfilled"

\* C13: no lock and no conditional write: whenever the store accepts a write of
\* the Teacher Stats Task, the stats document becomes what the task computed from
\* the document it read, whatever the document holds by then; so two invocations
\* that read the same state both get their write accepted and the later one wins.
StatsWriteIgnoresStoredState ==
    [][\A e \in Executors :
          Accepts(e, 1)
              => /\ store'[STATS_DOCUMENT_ID].data = inv[e].task[1].pending
                 /\ inv[e].task[1].pending = JSONstringify(JArray(
                        UpdatedStats(ItemsOf(inv[e].task[1].read), inv[e].event, inv[e].eventData)))]_vars

\* C13 witness (the lost update): two invocations running at the same time, both
\* create events of the same user, have read the same stats document; both writes
\* were accepted and the user's total is 1 more than in the document read, not 2.
LostUpdate ==
    \E e1, e2 \in Executors :
        /\ e1 # e2 /\ Running(e1) /\ Running(e2)
        /\ Operation(inv[e1].event) = sCreate /\ Operation(inv[e2].event) = sCreate
        /\ Attribution(inv[e1].eventData) = Attribution(inv[e2].eventData)
        /\ inv[e1].task[1].written # NoData /\ inv[e2].task[1].written # NoData
        /\ inv[e1].task[1].read = inv[e2].task[1].read
        /\ EntryOf(store[STATS_DOCUMENT_ID], Attribution(inv[e1].eventData)).total
             = EntryOf([data |-> inv[e1].task[1].read], Attribution(inv[e1].eventData)).total + 1

\* the names in `uploaders` of a links cache document
Uploaders(document) ==
    LET names == Prop(CacheFields(document), sUploaders)
    IN {names[k] : k \in DOMAIN names}

\* C14 as stated: a name that is in `uploaders` of the stored links cache is in it
\* in every later stored state, invocations running at the same time included.
LinksCacheOnlyGrows ==
    [][Uploaders(store[LINKS_UPLOADERS_CACHE_DOCUMENT_ID])
          \subseteq Uploaders(store'[LINKS_UPLOADERS_CACHE_DOCUMENT_ID])]_vars

\* C14 amended: the links cache changes only when a write of a Links Cache Task is
\* accepted, and the state written holds every name of the state that task read;
\* so it holds every name stored before it unless another write was accepted
\* between the read and the write of the task (invocations running at the same
\* time), in which case the names added in between are dropped.
LinksCacheGrowsFromWhatWasRead ==
    [][/\ store'[LINKS_UPLOADERS_CACHE_DOCUMENT_ID] # store[LINKS_UPLOADERS_CACHE_DOCUMENT_ID]
            => \E e \in Executors : Accepts(e, 2)
       /\ \A e \in Executors :
             Accepts(e, 2)
                => /\ Uploaders([data |-> inv[e].task[2].read])
                        \subseteq Uploaders(store'[LINKS_UPLOADERS_CACHE_DOCUMENT_ID])
                   /\ inv[e].task[2].read = store[LINKS_UPLOADERS_CACHE_DOCUMENT_ID].data
                        => Uploaders(store[LINKS_UPLOADERS_CACHE_DOCUMENT_ID])
                              \subseteq Uploaders(store'[LINKS_UPLOADERS_CACHE_DOCUMENT_ID])]_vars

\* C14 witness: a Links Cache Task read a document that held a name and its write,
\* now stored, holds that name and the new one.
LinksNameAddedToOthers ==
    \E e \in Executors :
        /\ Running(e) /\ inv[e].task[2].written # NoData
        /\ Uploaders([data |-> inv[e].task[2].read]) # {}
        /\ store[LINKS_UPLOADERS_CACHE_DOCUMENT_ID].data = inv[e].task[2].written
        /\ Cardinality(Uploaders(store[LINKS_UPLOADERS_CACHE_DOCUMENT_ID]))
             = Cardinality(Uploaders([data |-> inv[e].task[2].read])) + 1

\* the entries of a stats array that are not the entry of `name`
OtherEntries(items, name) == {items[k] : k \in {j \in DOMAIN items : items[j].name # name}}

\* delta when the event is on that collection, 0 otherwise
DeltaFor(event, collectionId) == IF CollectionOf(event) = collectionId THEN Delta(event) ELSE 0

\* C15 as stated: for a create or delete event with an attribution, the document
\* the Teacher Stats Task hands to the store has the user's total changed by delta
\* (+1 for a create, -1 for a delete, then clamped at 0) whatever the collection,
\* notes, forms and youtube changed by delta only for the collection configured for
\* them, and every other entry as it was in the document read.
DeltaAppliedByOperation ==
    \A e \in Executors :
        ( /\ Running(e)
          /\ Operation(inv[e].event) \in {sCreate, sDelete}
          /\ Truthy(Attribution(inv[e].eventData))
          /\ Handed(e, 1) # NoData )
            => LET name == Attribution(inv[e].eventData)
                   old == EntryOf([data |-> inv[e].task[1].read], name)
                   new == EntryOf([data |-> Handed(e, 1)], name)
               IN /\ new.total = Max0(old.total + Delta(inv[e].event))
                  /\ new.notes = Max0(old.notes + DeltaFor(inv[e].event, APPWRITE_NOTE_COLLECTION_ID))
                  /\ new.forms = Max0(old.forms + DeltaFor(inv[e].event, APPWRITE_FORM_COLLECTION_ID))
                  /\ new.youtube
                        = Max0(old.youtube + DeltaFor(inv[e].event, APPWRITE_YOUTUBE_COLLECTION_ID))
                  /\ OtherEntries(ItemsOf(Handed(e, 1)), name)
                        = OtherEntries(ItemsOf(inv[e].task[1].read), name)

\* the handler of executor e has been called
Invoked(e) == inv[e].phase \in {"running", "thrown", "responded"}

\* C16 as stated: the response comes only when the three tasks have settled, no
\* task has a store call in flight once the invocation has responded, and (the
\* store answering every call) every invocation eventually responds.
RespondsAfterAllSettled ==
    /\ [][\A e \in Executors :
             (Running(e) /\ inv'[e].phase = "responded")
                 => \A t \in TaskIds : Settled(inv[e].task[t])]_vars
    /\ [](\A e \in Executors :
             inv[e].phase = "responded" => \A t \in TaskIds : Settled(inv[e].task[t]))
    /\ \A e \in Executors : Invoked(e) ~> (inv[e].phase = "responded")

\* the names under `key` of the name lists `fields`
NamesUnder(fields, key) ==
    LET names == Prop(fields, key) IN {names[k] : k \in DOMAIN names}

\* C17 as stated: a create event on the notes collection with userName u and
\* abbreviation a, alone and with the store answering every call: once the
\* Uploader Cache Task has settled it is fulfilled, u is in `all` and under a in
\* the stored document, every other key is as it was read, and the task issued one
\* updateDocument if u was missing from `all` or from a, and none otherwise.
UploaderCreateAddsTheName ==
    \A e \in Executors :
        ( /\ Running(e)
          /\ Operation(inv[e].event) = sCreate
          /\ CollectionOf(inv[e].event) = APPWRITE_NOTE_COLLECTION_ID
          /\ Truthy(Prop(inv[e].eventData, "userName"))
          /\ Truthy(Prop(inv[e].eventData, "abbreviation"))
          /\ Settled(inv[e].task[3])
          /\ inv[e].task[3].reason # "StoreError" )
            => LET u == Prop(inv[e].eventData, "userName")
                   a == Prop(inv[e].eventData, "abbreviation")
                   before == CacheFields([data |-> inv[e].task[3].read])
                   after == CacheFields(store[UPLOADERS_CACHE_DOCUMENT_ID])
               IN /\ inv[e].task[3].status = "fulfilled"
                  /\ u \in NamesUnder(after, sAll) /\ u \in NamesUnder(after, a)
                  /\ DOMAIN after \subseteq (DOMAIN before) \cup {sAll, a}
                  /\ \A key \in (DOMAIN before) \ {sAll, a} :
                        key \in DOMAIN after /\ after[key] = before[key]
                  /\ inv[e].task[3].updates
                        = (IF u \in NamesUnder(before, sAll) /\ u \in NamesUnder(before, a)
                           THEN 0 ELSE 1)

\* C18: a document changes only when the store accepts a write of the task it
\* belongs to, and it then holds what that task handed over; so, within one
\* invocation, a task that has read its document finds it unchanged when it
\* writes, and what it wrote stays: the order in which the reads and writes of the
\* three tasks interleave does not show in any document.
EachTaskWritesItsOwnDocument ==
    /\ [][\A d \in DocumentIds :
             store'[d] # store[d]
                 => \E e \in Executors, t \in TaskIds :
                        /\ DocumentOf(t) = d /\ Accepts(e, t)
                        /\ store'[d].data = inv[e].task[t].pending
                        /\ \A x \in DocumentIds \ {d} : store'[x] = store[x]]_vars
    /\ [](\A e \in Executors, t \in TaskIds :
             Running(e)
                 => /\ inv[e].task[t].status = "updateDocument"
                        => store[DocumentOf(t)].data = inv[e].task[t].read
                    /\ inv[e].task[t].written # NoData
                        => store[DocumentOf(t)].data = inv[e].task[t].written)

\* C18 witness: the three tasks of one invocation have each had a write accepted
\* and each document holds what its task wrote.
AllThreeWrote ==
    \E e \in Executors :
        /\ Running(e)
        /\ \A t \in TaskIds :
              /\ inv[e].task[t].written # NoData
              /\ store[DocumentOf(t)].data = inv[e].task[t].written

\* the stats array a task read, with the entry it pushed for `name` when it found none
AsPushed(items, name) ==
    IF FindIndex(items, name) = 0 THEN Append(items, FreshStats(name)) ELSE items

\* C19: in every stats document the Teacher Stats Task hands to the store, two
\* entries with the same total are in the order they had in the document read,
\* an entry the task inserted counting as the last one of that document.
TiesKeepTheirOrder ==
    \A e \in Executors :
        (Running(e) /\ Handed(e, 1) # NoData)
            => LET before == AsPushed(ItemsOf(inv[e].task[1].read), Attribution(inv[e].eventData))
                   after == ItemsOf(Handed(e, 1))
               IN \A i, j \in DOMAIN after :
                    (i < j /\ after[i].total = after[j].total)
                        => FindIndex(before, after[i].name) < FindIndex(before, after[j].name)

\* C19 witness: the task inserted an entry that ties with the entry that was
\* there, and the inserted entry comes second.
InsertedEntryTiesAndIsLast ==
    \E e \in Executors :
        LET read == ItemsOf(inv[e].task[1].read)
            after == ItemsOf(Handed(e, 1))
        IN /\ Running(e) /\ Len(read) = 1 /\ Len(after) = 2
           /\ after[1].name = read[1].name
           /\ after[1].total = after[2].total /\ after[2].total > 0

UniqueNames(items) ==
    \A i, j \in DOMAIN items : items[i].name = items[j].name => i = j

NamesOf(items) == {items[k].name : k \in DOMAIN items}

\* C20: the stored stats document and every stats document the Teacher Stats
\* Task hands to the store have at most one entry per name; the task inserts an
\* entry, for the user of the event and with all counters 0 before the delta,
\* exactly when the document it read had no entry with that name.
OneEntryPerName ==
    /\ UniqueNames(StatsItems(store[STATS_DOCUMENT_ID]))
    /\ \A e \in Executors :
          (Running(e) /\ Handed(e, 1) # NoData)
              => LET name == Attribution(inv[e].eventData)
                     read == ItemsOf(inv[e].task[1].read)
                     after == ItemsOf(Handed(e, 1))
                 IN /\ UniqueNames(after)
                    /\ NamesOf(after) = NamesOf(read) \cup {name}
                    /\ Len(after) = Len(read) + (IF name \in NamesOf(read) THEN 0 ELSE 1)
                    /\ name \notin NamesOf(read)
                         => \E k \in DOMAIN after :
                               after[k] = Clamp(AddIncrement(FreshStats(name),
                                                CollectionId(inv[e].event), Increment(inv[e].event)))

\* C20 witness: two invocations for the same user ran at the same time; the one
\* whose write is stored read a document that already had the user's entry and
\* inserted none.
EntryFoundNotInserted ==
    \E e1, e2 \in Executors :
        LET name == Attribution(inv[e1].eventData)
            read == ItemsOf(inv[e1].task[1].read)
        IN /\ e1 # e2 /\ Running(e1) /\ Running(e2)
           /\ Attribution(inv[e2].eventData) = name
           /\ inv[e1].task[1].written # NoData /\ inv[e2].task[1].written # NoData
           /\ name \in NamesOf(read)
           /\ store[STATS_DOCUMENT_ID].data = inv[e1].task[1].written
           /\ Len(StatsItems(store[STATS_DOCUMENT_ID])) = Len(read)

====
